---- MODULE Spec2Model ----
(***************************************************************************)
(* Cloud sync coordinator of docs/js/sync.js: the provider's push and      *)
(* pull, the field-level merge, the version history and the sync state     *)
(* machine, for two devices that share one remote copy.                    *)
(***************************************************************************)
EXTENDS Integers, Sequences, FiniteSets, TLC

\* ------------------------------------------------------------------ bounds
SessionHorizon == 3  \* Spec: the clock is read while it is below this
SharedHorizon  == 8  \* SharedSpec: likewise
FirstHorizon   == 4  \* FirstSyncSpec: likewise
MaxInflight    == 2  \* network calls one device may have outstanding
HistoryHorizon == 12 \* HistorySpec: the clock is read while it is below this
DebounceHorizon == 5 \* DebounceSpec: likewise
RestoreHorizon == 5  \* RestoreSpec: likewise
MaxStamp       == 2  \* MergeSpec: item timestamps are 1..MaxStamp
MaxSyncAt      == 1  \* MergeSpec: profile syncMeta.lastSyncAt is 0..MaxSyncAt

\* -------------------------------------------------------- program constants
MAX_HISTORY == 10

Devices   == {1, 2}
Items     == {"A", "B"}
Current   == "P1"           \* p.current, the profile the page edits
Fields    == {"style", "journey", "hide_completed", "collapsed", "map_settings"}
Styles    == {1}            \* the values the page gives the style field

\* ---------------------------------------------------------------- documents
\* The value of pull() when nothing is uploaded, and of a missing snapshot.
Null == [null |-> TRUE]

\* `(x && x.k) || 0`: a missing entry reads as 0.
Get0(f, k) == IF k \in DOMAIN f THEN f[k] ELSE 0

\* A document without _syncMeta reads as lastSyncAt 0, version 0.
NoMeta == [lastSyncAt |-> 0, version |-> 0]

\* A profile: checklistData, checklistTimestamps (hasTs: whether the profile
\* has that object at all; the page creates profiles without it), the
\* non-mergeable fields (those present), and syncMeta.lastSyncAt (0 when
\* absent).
EmptyProfile ==
    [data |-> <<>>, ts |-> <<>>, hasTs |-> FALSE, fields |-> <<>>, syncAt |-> 0]

\* The document of a device that has never synced.
FreshDoc == [profs |-> [p \in {Current} |-> EmptyProfile], meta |-> NoMeta]

\* Everything of a document but its top-level _syncMeta.
Content(doc) == doc.profs

\* ------------------------------------------------------------ mergeProfiles
\* A comparison under which the remote item also wins a tie.
remoteItemWinsTies(lt, rt) == rt >= lt

\* `if (rt > lt)`: the remote item replaces the local one.
remoteItemWins(lt, rt) == rt > lt

\* An item loop that visits only the items the local profile has.
mergedItemIdsLocalOnly(lp, rp) == DOMAIN rp.data \cap DOMAIN lp.data

\* The items the item-level merge visits: $.each(rp.checklistData || {}, ...).
mergedItemIds(lp, rp) == DOMAIN rp.data

\* The body of the $.each over remoteProfs for a profile present on both sides.
mergeOneProfile(lp, rp) ==
    LET localTs  == lp.ts
        remoteTs == rp.ts
        won      == {i \in mergedItemIds(lp, rp) :
                        remoteItemWins(Get0(localTs, i), Get0(remoteTs, i))}
        mergedData == [i \in DOMAIN lp.data \cup won |->
                          IF i \in won THEN rp.data[i] ELSE lp.data[i]]
        mergedTs   == [i \in DOMAIN localTs \cup won |->
                          IF i \in won THEN Get0(remoteTs, i) ELSE localTs[i]]
        copied     == IF rp.syncAt > lp.syncAt THEN DOMAIN rp.fields ELSE {}
        mergedFields == [k \in DOMAIN lp.fields \cup copied |->
                          IF k \in copied THEN rp.fields[k] ELSE lp.fields[k]]
    IN  [data |-> mergedData, ts |-> mergedTs, hasTs |-> TRUE,
         fields |-> mergedFields, syncAt |-> lp.syncAt]

\* A merge that visits the profiles the local document has.
mergeProfilesLocalNames(local, remote) ==
    IF remote = Null THEN local
    ELSE [profs |-> [p \in DOMAIN local.profs |->
                        IF p \notin DOMAIN remote.profs THEN local.profs[p]
                        ELSE mergeOneProfile(local.profs[p], remote.profs[p])],
          meta |-> local.meta]

\* mergeProfiles(local, remote): a clone of local in which every remote
\* profile is adopted when absent and merged when present.
mergeProfiles(local, remote) ==
    IF remote = Null THEN local
    ELSE LET remoteProfs == remote.profs
             localProfs  == local.profs
             mergedProfs == [p \in DOMAIN localProfs \cup DOMAIN remoteProfs |->
                 IF p \notin DOMAIN localProfs THEN remoteProfs[p]
                 ELSE IF p \notin DOMAIN remoteProfs THEN localProfs[p]
                 ELSE mergeOneProfile(localProfs[p], remoteProfs[p])]
         IN  [profs |-> mergedProfs, meta |-> local.meta]

\* ---------------------------------------------------------- version history
\* A snapshot appended behind the entries, the cap keeping the oldest.
saveVersionSnapshotOldestFirst(history, data) ==
    LET h == history \o <<data>>
    IN  IF Len(h) > MAX_HISTORY THEN SubSeq(h, 1, MAX_HISTORY) ELSE h

\* saveVersionSnapshot: newest first, capped at MAX_HISTORY.  (The entry's
\* display timestamp is not modelled.)
saveVersionSnapshot(history, data) ==
    LET h == <<data>> \o history
    IN  IF Len(h) > MAX_HISTORY THEN SubSeq(h, 1, MAX_HISTORY) ELSE h

\* -------------------------------------------------------------------- state
VARIABLES
    now,             \* the last value Date.now() returned
    remote,          \* the provider's remote object: a document, or Null
    store,           \* $.jStorage value under profilesKey, per device
    history,         \* localStorage[VERSION_HIST_KEY], per device, newest first
    activeProvider,  \* activeProvider (and syncConfig) is non-null
    pendingChanges,
    debounceTimer,   \* the debounce timeout is armed
    periodicTimer,   \* the periodic interval is armed
    hooksReady,      \* _hooksReady: setItem and $.jStorage.set are wrapped
    currentState,
    lastErrorMsg,
    inflight,        \* the provider calls not yet settled, in order of issue
    connecting,      \* _connectGoogle's signIn is outstanding
    loadTimer,       \* init's 1200 ms timeout before the page-load pull is armed
    horizon,         \* the last instant explored (never changes)
    completed        \* history variable: the device's cycles, see Completed

vars == <<now, remote, store, history, activeProvider, pendingChanges,
          debounceTimer, periodicTimer, hooksReady, currentState, lastErrorMsg,
          inflight, connecting, loadTimer, horizon, completed>>

\* A provider call in flight: doSync's push, doPullAndMerge's pull, or
\* doPullAndMerge's push of the merge result (with its dataChanged).
PushCall(doc)           == [kind |-> "push",   doc |-> doc,  changed |-> FALSE]
PullCall                == [kind |-> "pull",   doc |-> Null, changed |-> FALSE]
MergePushCall(doc, chg) == [kind |-> "pmpush", doc |-> doc,  changed |-> chg]

\* completed[d] lists, oldest first, "push" for each doSync cycle and "merge"
\* for each doPullAndMerge cycle of device d whose upload was accepted and
\* whose then-handler ran, after "null" when the device's pull returned null
\* before any of them.
Completed(d, kind) == Append(completed[d], kind)

Drop(s, k) == SubSeq(s, 1, k - 1) \o SubSeq(s, k + 1, Len(s))

Max(a, b) == IF a > b THEN a ELSE b

\* Date.now(): every read is later than the one before (two operations of
\* the model are at least a millisecond apart).
ClockRead == {t \in {now + 1} : t <= horizon}

\* The document after a first accepted push at time 1 (doSync's stamping of
\* the fresh document).
SyncedDoc == [FreshDoc EXCEPT !.meta = [lastSyncAt |-> 1, version |-> 1]]

\* A page just loaded.  init(): loadSyncConfig, then the provider, the hooks,
\* the periodic timer and the page-load pull exist exactly on the devices
\* `configured`, where a sync configuration was persisted.  The devices
\* `uploaded` pushed SyncedDoc in an earlier session: it is their stored
\* document, their one snapshot and the remote object.
InitPages(configured, uploaded) ==
    /\ now = 1
    /\ remote = IF uploaded = {} THEN Null ELSE SyncedDoc
    /\ store = [d \in Devices |-> IF d \in uploaded THEN SyncedDoc ELSE FreshDoc]
    /\ history = [d \in Devices |-> IF d \in uploaded THEN <<SyncedDoc>> ELSE <<>>]
    /\ completed = [d \in Devices |-> IF d \in uploaded THEN <<"push">> ELSE <<>>]
    /\ activeProvider = [d \in Devices |-> d \in configured]
    /\ hooksReady = [d \in Devices |-> d \in configured]
    /\ periodicTimer = [d \in Devices |-> d \in configured]
    /\ loadTimer = [d \in Devices |-> d \in configured]
    /\ pendingChanges = [d \in Devices |-> FALSE]
    /\ debounceTimer = [d \in Devices |-> FALSE]
    /\ currentState = [d \in Devices |-> "inactive"]
    /\ lastErrorMsg = [d \in Devices |-> ""]
    /\ inflight = [d \in Devices |-> <<>>]
    /\ connecting = [d \in Devices |-> FALSE]

\* ------------------------------------------------------------- coordinator
\* setState(state)
setState(d, state) == currentState' = [currentState EXCEPT ![d] = state]

\* The stamping of doSync: version + 1, lastSyncAt = Date.now().
stampSyncMeta(doc, t) ==
    [doc EXCEPT !.meta = [lastSyncAt |-> t, version |-> doc.meta.version + 1]]

\* doSync() returns at once without a provider or while 'syncing'.
doSyncRuns(d) == activeProvider[d] /\ currentState[d] # "syncing"

\* doSync(), called with `calls` outstanding: constrains now', currentState'
\* and inflight'.
doSync(d, calls) ==
    IF doSyncRuns(d)
    THEN /\ Len(calls) < MaxInflight
         /\ \E t \in ClockRead :
               /\ now' = t
               /\ inflight' = [inflight EXCEPT
                                 ![d] = Append(calls, PushCall(stampSyncMeta(store[d], t)))]
         /\ setState(d, "syncing")
    ELSE /\ inflight' = [inflight EXCEPT ![d] = calls]
         /\ UNCHANGED <<now, currentState>>

\* doPullAndMerge(onComplete), up to the pull it issues, with activeProvider
\* non-null or not (`provider`): constrains currentState' and inflight'.
doPullAndMerge(d, provider) ==
    IF provider
    THEN /\ Len(inflight[d]) < MaxInflight
         /\ setState(d, "syncing")
         /\ inflight' = [inflight EXCEPT ![d] = Append(@, PullCall)]
    ELSE UNCHANGED <<currentState, inflight>>

\* notifyChange(): constrains pendingChanges', currentState', debounceTimer'.
notifyChange(d) ==
    IF activeProvider[d]
    THEN /\ pendingChanges' = [pendingChanges EXCEPT ![d] = TRUE]
         /\ setState(d, "pending")
         /\ debounceTimer' = [debounceTimer EXCEPT ![d] = TRUE]
    ELSE UNCHANGED <<pendingChanges, currentState, debounceTimer>>

\* ------------------------------------------------------------ local changes
\* A wrapper without the _internalWrite test.
hookNotifiesEveryWrite(d, internalWrite) == hooksReady[d]

\* The wrapped $.jStorage.set(profilesKey, value): whether it calls
\* notifyChange(), given the value of _internalWrite at the call.
hookNotifies(d, internalWrite) == hooksReady[d] /\ ~internalWrite

\* A write of the document by the coordinator itself, between
\* `_internalWrite = true` and `_internalWrite = false`: whether it reaches
\* notifyChange() past that function's provider check.
internalWriteNotifies(d) == hookNotifies(d, TRUE) /\ activeProvider[d]

\* _origSetItem (the page's own setItem): checklistData[id] = checked in the
\* current profile.
origSetItem(doc, id, checked) ==
    [doc EXCEPT !.profs[Current].data =
        [i \in DOMAIN @ \cup {id} |-> IF i = id THEN checked ELSE @[i]]]

\* The stamping of the wrapped setItem: checklistTimestamps[id] = Date.now().
stampItem(doc, id, t) ==
    [doc EXCEPT !.profs[Current].ts =
                    [i \in DOMAIN @ \cup {id} |-> IF i = id THEN t ELSE @[i]],
                !.profs[Current].hasTs = TRUE]

\* window.setItem(id, checked, false).  Wrapped: the page's write goes through
\* the wrapped $.jStorage.set (notifyChange), the item is stamped under
\* _internalWrite, then notifyChange().  Not wrapped: the page's write alone.
SetItem(d, id, checked) ==
    /\ IF hooksReady[d]
       THEN /\ \E t \in ClockRead :
                 /\ now' = t
                 /\ store' = [store EXCEPT
                                ![d] = stampItem(origSetItem(@, id, checked), id, t)]
            /\ notifyChange(d)
       ELSE /\ store' = [store EXCEPT ![d] = origSetItem(@, id, checked)]
            /\ UNCHANGED <<now, pendingChanges, currentState, debounceTimer>>
    /\ UNCHANGED <<remote, history, activeProvider, periodicTimer, hooksReady,
                   lastErrorMsg, inflight, connecting, loadTimer,
                   horizon, completed>>

\* Any other write of the document by the page ($.jStorage.set(profilesKey, v)
\* with _internalWrite false), here a change of the profile's style.
JStorageSet(d, style) ==
    /\ Get0(store[d].profs[Current].fields, "style") # style
    /\ store' = [store EXCEPT ![d].profs[Current].fields =
                    [k \in DOMAIN @ \cup {"style"} |-> IF k = "style" THEN style ELSE @[k]]]
    /\ IF hookNotifies(d, FALSE)
       THEN notifyChange(d)
       ELSE UNCHANGED <<pendingChanges, currentState, debounceTimer>>
    /\ UNCHANGED <<now, remote, history, activeProvider, periodicTimer, hooksReady,
                   lastErrorMsg, inflight, connecting, loadTimer,
                   horizon, completed>>

\* SyncManager.notifyChange()
NotifyChange(d) ==
    /\ notifyChange(d)
    /\ UNCHANGED <<now, remote, store, history, activeProvider, periodicTimer,
                   hooksReady, lastErrorMsg, inflight, connecting, loadTimer,
                   horizon, completed>>

\* ------------------------------------------------------------------ triggers
\* The debounce timeout set by notifyChange fires: doSync().  Set on this page
\* for DEBOUNCE_MS, it is due after init's 1200 ms timeout.
DebounceFire(d) ==
    /\ debounceTimer[d]
    /\ ~loadTimer[d]
    /\ debounceTimer' = [debounceTimer EXCEPT ![d] = FALSE]
    /\ doSync(d, inflight[d])
    /\ UNCHANGED <<remote, store, history, activeProvider, pendingChanges,
                   periodicTimer, hooksReady, lastErrorMsg, connecting, loadTimer,
                   horizon, completed>>

\* The interval of startPeriodicSync fires: if (pendingChanges) doSync().
\* Its first tick, after PERIODIC_MS, is due after init's 1200 ms timeout.
PeriodicTick(d) ==
    /\ periodicTimer[d]
    /\ ~loadTimer[d]
    /\ IF pendingChanges[d]
       THEN doSync(d, inflight[d])
       ELSE UNCHANGED <<now, currentState, inflight>>
    /\ UNCHANGED <<remote, store, history, activeProvider, pendingChanges,
                   debounceTimer, periodicTimer, hooksReady, lastErrorMsg,
                   connecting, loadTimer,
                   horizon, completed>>

\* SyncManager.syncNow() and the Sync Now button: doSync().
SyncNow(d) ==
    /\ doSync(d, inflight[d])
    /\ UNCHANGED <<remote, store, history, activeProvider, pendingChanges,
                   debounceTimer, periodicTimer, hooksReady, lastErrorMsg,
                   connecting, loadTimer,
                   horizon, completed>>

\* init's timeout fires: the page-load doPullAndMerge.
LoadPull(d) ==
    /\ loadTimer[d]
    /\ loadTimer' = [loadTimer EXCEPT ![d] = FALSE]
    /\ doPullAndMerge(d, activeProvider[d])
    /\ UNCHANGED <<now, remote, store, history, activeProvider, pendingChanges,
                   debounceTimer, periodicTimer, hooksReady, lastErrorMsg, connecting,
                   horizon, completed>>

\* The beforeunload listener of setupPageUnloadSync, installed with the
\* periodic timer: if (pendingChanges && activeProvider) doSync().
BeforeUnload(d) ==
    /\ hooksReady[d]
    /\ IF pendingChanges[d] /\ activeProvider[d]
       THEN doSync(d, inflight[d])
       ELSE UNCHANGED <<now, currentState, inflight>>
    /\ UNCHANGED <<remote, store, history, activeProvider, pendingChanges,
                   debounceTimer, periodicTimer, hooksReady, lastErrorMsg,
                   connecting, loadTimer, horizon, completed>>

\* The uploads among `calls`.
Uploads(calls) == {calls[i].doc : i \in {j \in 1..Len(calls) : calls[j].kind # "pull"}}

\* The page is left and a page of the site is loaded.  The old page's timers
\* and handlers are gone; an upload it had outstanding may still reach the
\* provider.  Then init() runs on what localStorage holds.
PageLoad(d) ==
    /\ \E landed \in {remote} \cup Uploads(inflight[d]) : remote' = landed
    /\ inflight' = [inflight EXCEPT ![d] = <<>>]
    /\ connecting' = [connecting EXCEPT ![d] = FALSE]
    /\ pendingChanges' = [pendingChanges EXCEPT ![d] = FALSE]
    /\ debounceTimer' = [debounceTimer EXCEPT ![d] = FALSE]
    /\ lastErrorMsg' = [lastErrorMsg EXCEPT ![d] = ""]
    /\ setState(d, "inactive")
    /\ hooksReady' = [hooksReady EXCEPT ![d] = activeProvider[d]]
    /\ periodicTimer' = [periodicTimer EXCEPT ![d] = activeProvider[d]]
    /\ loadTimer' = [loadTimer EXCEPT ![d] = activeProvider[d]]
    /\ UNCHANGED <<now, store, history, activeProvider, horizon, completed>>

\* ------------------------------------------------- activation, deactivation
\* _connectGoogle(), up to the signIn it issues.
ConnectGoogle(d) ==
    /\ ~activeProvider[d]
    /\ ~connecting[d]
    /\ connecting' = [connecting EXCEPT ![d] = TRUE]
    /\ setState(d, "syncing")
    /\ UNCHANGED <<now, remote, store, history, activeProvider, pendingChanges,
                   debounceTimer, periodicTimer, hooksReady, lastErrorMsg,
                   inflight, loadTimer,
                   horizon, completed>>

\* signIn resolved: syncConfig and the provider are set, setupHooks,
\* startPeriodicSync, doPullAndMerge.
SignInResolved(d) ==
    /\ connecting[d]
    /\ connecting' = [connecting EXCEPT ![d] = FALSE]
    /\ activeProvider' = [activeProvider EXCEPT ![d] = TRUE]
    /\ hooksReady' = [hooksReady EXCEPT ![d] = TRUE]
    /\ periodicTimer' = [periodicTimer EXCEPT ![d] = TRUE]
    /\ doPullAndMerge(d, TRUE)
    /\ UNCHANGED <<now, remote, store, history, pendingChanges, debounceTimer,
                   lastErrorMsg, loadTimer,
                   horizon, completed>>

\* signIn rejected.
SignInRejected(d) ==
    /\ connecting[d]
    /\ connecting' = [connecting EXCEPT ![d] = FALSE]
    /\ lastErrorMsg' = [lastErrorMsg EXCEPT ![d] = "Could not connect"]
    /\ setState(d, "error")
    /\ UNCHANGED <<now, remote, store, history, activeProvider, pendingChanges,
                   debounceTimer, periodicTimer, hooksReady, inflight, loadTimer,
                   horizon, completed>>

\* A deactivation that leaves the timers armed.
_deactivateKeepsTimers(d) ==
    /\ activeProvider[d]
    /\ activeProvider' = [activeProvider EXCEPT ![d] = FALSE]
    /\ pendingChanges' = [pendingChanges EXCEPT ![d] = FALSE]
    /\ setState(d, "inactive")
    /\ UNCHANGED <<now, remote, store, history, hooksReady, lastErrorMsg,
                   inflight, connecting, loadTimer, debounceTimer, periodicTimer,
                   horizon, completed>>

\* _deactivate(), offered by the options page while a configuration exists.
_deactivate(d) ==
    /\ activeProvider[d]
    /\ debounceTimer' = [debounceTimer EXCEPT ![d] = FALSE]
    /\ periodicTimer' = [periodicTimer EXCEPT ![d] = FALSE]
    /\ activeProvider' = [activeProvider EXCEPT ![d] = FALSE]
    /\ pendingChanges' = [pendingChanges EXCEPT ![d] = FALSE]
    /\ setState(d, "inactive")
    /\ UNCHANGED <<now, remote, store, history, hooksReady, lastErrorMsg,
                   inflight, connecting, loadTimer,
                   horizon, completed>>

\* ------------------------------------------------------ doSync's completions
\* The then-handler of doSync's push: write localData back under
\* _internalWrite, snapshot, clear the pending flag, synced.
doSyncThen(d, localData) ==
    /\ store' = [store EXCEPT ![d] = localData]
    /\ debounceTimer' = [debounceTimer EXCEPT ![d] = @ \/ internalWriteNotifies(d)]
    /\ history' = [history EXCEPT ![d] = saveVersionSnapshot(@, localData)]
    /\ pendingChanges' = [pendingChanges EXCEPT ![d] = FALSE]
    /\ setState(d, "synced")
    /\ UNCHANGED lastErrorMsg

\* A catch-handler that also clears the pending flag, as the then-handler does.
doSyncCatchClearsPending(d, message) ==
    /\ lastErrorMsg' = [lastErrorMsg EXCEPT ![d] = message]
    /\ setState(d, "error")
    /\ pendingChanges' = [pendingChanges EXCEPT ![d] = FALSE]
    /\ UNCHANGED <<store, history, debounceTimer>>

\* The catch-handler of doSync's push.
doSyncCatch(d, message) ==
    /\ lastErrorMsg' = [lastErrorMsg EXCEPT ![d] = message]
    /\ setState(d, "error")
    /\ UNCHANGED <<store, history, pendingChanges, debounceTimer>>

IsCall(d, k, kind) == k \in 1..Len(inflight[d]) /\ inflight[d][k].kind = kind

\* The upload is accepted (the response carries the file id).  push() then
\* writes syncConfig.fileId, which throws when syncConfig is null: the promise
\* rejects and the catch-handler runs.
PushAccepted(d, k) ==
    /\ IsCall(d, k, "push")
    /\ remote' = inflight[d][k].doc
    /\ inflight' = [inflight EXCEPT ![d] = Drop(@, k)]
    /\ IF activeProvider[d]
       THEN /\ doSyncThen(d, inflight[d][k].doc)
            /\ completed' = [completed EXCEPT ![d] = Completed(d, "push")]
       ELSE /\ doSyncCatch(d, "TypeError")
            /\ UNCHANGED completed
    /\ UNCHANGED <<now, activeProvider, periodicTimer, hooksReady,
                   connecting, loadTimer,
                   horizon>>

\* The upload is answered with an error status and a JSON body without id:
\* r.json() resolves, push() resolves, the then-handler runs.
PushHttpError(d, k) ==
    /\ IsCall(d, k, "push")
    /\ inflight' = [inflight EXCEPT ![d] = Drop(@, k)]
    /\ doSyncThen(d, inflight[d][k].doc)
    /\ UNCHANGED <<now, remote, activeProvider, periodicTimer,
                   hooksReady, connecting, loadTimer,
                   horizon, completed>>

\* The upload fails (fetch rejects, or the body is not JSON).
PushRejected(d, k) ==
    /\ IsCall(d, k, "push")
    /\ inflight' = [inflight EXCEPT ![d] = Drop(@, k)]
    /\ doSyncCatch(d, "Push failed")
    /\ UNCHANGED <<now, remote, activeProvider, periodicTimer,
                   hooksReady, connecting, loadTimer,
                   horizon, completed>>

\* ---------------------------------------------- doPullAndMerge's completions
\* What the pull's then-handler computes from the local and the remote
\* document at time t: the merge only when the remote lastSyncAt is strictly
\* newer, then the new _syncMeta.
mergedDocument(localData, remoteData, t) ==
    LET merged == IF remoteData.meta.lastSyncAt > localData.meta.lastSyncAt
                  THEN mergeProfiles(localData, remoteData)
                  ELSE localData
    IN  [merged EXCEPT !.meta =
            [lastSyncAt |-> t,
             version |-> Max(localData.meta.version, remoteData.meta.version) + 1]]

\* dataChanged: JSON.stringify(merged) !== JSON.stringify(localData).  Without
\* a merge, merged and localData are one object, so the two strings agree.
dataChanged(localData, remoteData, t) ==
    IF remoteData.meta.lastSyncAt > localData.meta.lastSyncAt
    THEN mergedDocument(localData, remoteData, t) # localData
    ELSE FALSE

\* pull() resolved with the remote document: merge, write the result to the
\* store under _internalWrite, push it.  With activeProvider null the push throws a TypeError and
\* the outer catch-handler runs.
PullResolved(d, k) ==
    /\ IsCall(d, k, "pull")
    /\ remote # Null
    /\ \E t \in ClockRead :
          /\ now' = t
          /\ store' = [store EXCEPT ![d] = mergedDocument(@, remote, t)]
          /\ IF activeProvider[d]
             THEN /\ inflight' = [inflight EXCEPT ![d] = Append(Drop(@, k),
                                      MergePushCall(mergedDocument(store[d], remote, t),
                                                    dataChanged(store[d], remote, t)))]
                  /\ IF internalWriteNotifies(d)
                     THEN setState(d, "pending")
                     ELSE UNCHANGED currentState
                  /\ UNCHANGED lastErrorMsg
             ELSE /\ inflight' = [inflight EXCEPT ![d] = Drop(@, k)]
                  /\ lastErrorMsg' = [lastErrorMsg EXCEPT ![d] = "TypeError"]
                  /\ setState(d, "error")
    /\ pendingChanges' = [pendingChanges EXCEPT ![d] = @ \/ internalWriteNotifies(d)]
    /\ debounceTimer' = [debounceTimer EXCEPT ![d] = @ \/ internalWriteNotifies(d)]
    /\ UNCHANGED <<remote, history, activeProvider,
                   periodicTimer, hooksReady, connecting, loadTimer,
                   horizon, completed>>

\* pull() resolved with null: no file was found, or the download was answered
\* with a status that is not OK.  The then-handler calls doSync().
PullNull(d, k) ==
    /\ IsCall(d, k, "pull")
    /\ doSync(d, Drop(inflight[d], k))
    /\ completed' = [completed EXCEPT ![d] = IF @ = <<>> THEN <<"null">> ELSE @]
    /\ UNCHANGED <<remote, store, history, activeProvider, pendingChanges,
                   debounceTimer, periodicTimer, hooksReady, lastErrorMsg,
                   connecting, loadTimer,
                   horizon>>

\* pull() rejected: the outer catch-handler.
PullRejected(d, k) ==
    /\ IsCall(d, k, "pull")
    /\ inflight' = [inflight EXCEPT ![d] = Drop(@, k)]
    /\ lastErrorMsg' = [lastErrorMsg EXCEPT ![d] = "Pull failed"]
    /\ setState(d, "error")
    /\ UNCHANGED <<now, remote, store, history, activeProvider, pendingChanges,
                   debounceTimer, periodicTimer, hooksReady, connecting, loadTimer,
                   horizon, completed>>

\* The then-handler of doPullAndMerge's push: snapshot, synced.
mergePushThen(d, merged) ==
    /\ history' = [history EXCEPT ![d] = saveVersionSnapshot(@, merged)]
    /\ pendingChanges' = [pendingChanges EXCEPT ![d] = FALSE]
    /\ setState(d, "synced")
    /\ UNCHANGED lastErrorMsg

\* The catch-handler of doPullAndMerge's push.
mergePushCatch(d, message) ==
    /\ lastErrorMsg' = [lastErrorMsg EXCEPT ![d] = message]
    /\ setState(d, "error")
    /\ UNCHANGED <<history, pendingChanges>>

\* The upload of the merge result is accepted.
MergePushAccepted(d, k) ==
    /\ IsCall(d, k, "pmpush")
    /\ remote' = inflight[d][k].doc
    /\ inflight' = [inflight EXCEPT ![d] = Drop(@, k)]
    /\ IF activeProvider[d]
       THEN /\ mergePushThen(d, inflight[d][k].doc)
            /\ completed' = [completed EXCEPT ![d] = Completed(d, "merge")]
       ELSE /\ mergePushCatch(d, "TypeError")
            /\ UNCHANGED completed
    /\ UNCHANGED <<now, store, activeProvider, debounceTimer, periodicTimer,
                   hooksReady, connecting, loadTimer,
                   horizon>>

\* The upload of the merge result is answered with an error status.
MergePushHttpError(d, k) ==
    /\ IsCall(d, k, "pmpush")
    /\ inflight' = [inflight EXCEPT ![d] = Drop(@, k)]
    /\ mergePushThen(d, inflight[d][k].doc)
    /\ UNCHANGED <<now, remote, store, activeProvider, debounceTimer,
                   periodicTimer, hooksReady, connecting, loadTimer,
                   horizon, completed>>

\* The upload of the merge result fails.
MergePushRejected(d, k) ==
    /\ IsCall(d, k, "pmpush")
    /\ inflight' = [inflight EXCEPT ![d] = Drop(@, k)]
    /\ mergePushCatch(d, "Push failed")
    /\ UNCHANGED <<now, remote, store, activeProvider, debounceTimer,
                   periodicTimer, hooksReady, connecting, loadTimer,
                   horizon, completed>>

\* ------------------------------------------------------------ specifications
Calls == 1..MaxInflight

\* The items a device's user toggles: device 1 only A, device 2 only B.
EditedBy(d) == IF d = 1 THEN {"A"} ELSE {"B"}

\* The checkbox of an item as the page shows it.
Checked(doc, id) ==
    id \in DOMAIN doc.profs[Current].data /\ doc.profs[Current].data[id]

\* Everything one page of a device and its network can do.
SessionNext(d) ==
    \/ \E id \in EditedBy(d) : SetItem(d, id, ~Checked(store[d], id))
    \/ NotifyChange(d)
    \/ DebounceFire(d)
    \/ PeriodicTick(d)
    \/ SyncNow(d)
    \/ LoadPull(d)
    \/ BeforeUnload(d)
    \/ ConnectGoogle(d)
    \/ SignInResolved(d)
    \/ SignInRejected(d)
    \/ _deactivate(d)
    \/ \E k \in Calls : PushAccepted(d, k)
    \/ \E k \in Calls : PushHttpError(d, k)
    \/ \E k \in Calls : PushRejected(d, k)
    \/ \E k \in Calls : PullResolved(d, k)
    \/ \E k \in Calls : PullNull(d, k)
    \/ \E k \in Calls : PullRejected(d, k)
    \/ \E k \in Calls : MergePushAccepted(d, k)
    \/ \E k \in Calls : MergePushHttpError(d, k)
    \/ \E k \in Calls : MergePushRejected(d, k)

\* One page session of one device, started with or without a persisted sync
\* configuration.
Init ==
    /\ \E configured \in SUBSET {1}, uploaded \in SUBSET {1} :
          InitPages(configured, uploaded)
    /\ horizon = SessionHorizon

Next == SessionNext(1)

Spec == Init /\ [][Next]_vars

\* A page load while none of the page's provider calls is outstanding.
QuietPageLoad(d) == inflight[d] = <<>> /\ PageLoad(d)

\* Two devices whose network calls all succeed: local toggles, debounced push
\* cycles, page loads and their pull-and-merge cycles.
SyncStep(d) ==
    \/ \E id \in EditedBy(d) : SetItem(d, id, ~Checked(store[d], id))
    \/ DebounceFire(d)
    \/ QuietPageLoad(d)
    \/ LoadPull(d)
    \/ \E k \in Calls : PushAccepted(d, k)
    \/ \E k \in Calls : PullResolved(d, k)
    \/ \E k \in Calls : MergePushAccepted(d, k)

\* Both devices are 'synced' on one document without items: device 1 pushed it
\* at time 1, device 2 then merged it and pushed the result at time 2.
InitSynced ==
    LET doc2 == [FreshDoc EXCEPT !.meta = [lastSyncAt |-> 2, version |-> 2]]
    IN  /\ now = 2
        /\ horizon = SharedHorizon
        /\ remote = doc2
        /\ store = [d \in Devices |-> IF d = 1 THEN SyncedDoc ELSE doc2]
        /\ history = [d \in Devices |-> IF d = 1 THEN <<SyncedDoc>> ELSE <<doc2>>]
        /\ completed = [d \in Devices |-> IF d = 1 THEN <<"push">> ELSE <<"merge">>]
        /\ activeProvider = [d \in Devices |-> TRUE]
        /\ hooksReady = [d \in Devices |-> TRUE]
        /\ periodicTimer = [d \in Devices |-> TRUE]
        /\ loadTimer = [d \in Devices |-> FALSE]
        /\ pendingChanges = [d \in Devices |-> FALSE]
        /\ debounceTimer = [d \in Devices |-> FALSE]
        /\ currentState = [d \in Devices |-> "synced"]
        /\ lastErrorMsg = [d \in Devices |-> ""]
        /\ inflight = [d \in Devices |-> <<>>]
        /\ connecting = [d \in Devices |-> FALSE]

SharedNext == \E d \in Devices : SyncStep(d)

SharedSpec == InitSynced /\ [][SharedNext]_vars

\* pull() resolved with null because no file exists.
PullFindsNothing(d, k) == remote = Null /\ PullNull(d, k)

\* Two devices that were never activated, with what their users do first.
InitFirst ==
    /\ InitPages({}, {})
    /\ horizon = FirstHorizon

FirstNext ==
    \E d \in Devices :
        \/ SyncStep(d)
        \/ NotifyChange(d)
        \/ ConnectGoogle(d)
        \/ SignInResolved(d)
        \/ \E k \in Calls : PullFindsNothing(d, k)

FirstSyncSpec == InitFirst /\ [][FirstNext]_vars

\* --------------------------------------------------------------- properties
\* A provider call of device d settles (its k-th outstanding one).
Settles(d, k) ==
    \/ PushAccepted(d, k) \/ PushHttpError(d, k) \/ PushRejected(d, k)
    \/ PullResolved(d, k) \/ PullNull(d, k) \/ PullRejected(d, k)
    \/ MergePushAccepted(d, k) \/ MergePushHttpError(d, k)
    \/ MergePushRejected(d, k)

\* C1: in every reachable state a device has at most one provider call (the
\* push of a push cycle, or the pull or push of a pull-and-merge cycle)
\* outstanding.
C1_OneCycleInFlight == \A d \in Devices : Len(inflight[d]) <= 1

\* C2: the then-handler of a push cycle leaves the content of the local store
\* as it finds it, so a mutation stored while the push was in flight is still
\* there after the handler.
C2_PushKeepsLocalEdit ==
    [][\A d \in Devices, k \in Calls :
          (PushAccepted(d, k) /\ activeProvider[d])
              => Content(store'[d]) = Content(store[d])]_vars

\* C3: when the pull of a pull-and-merge cycle returns null while a provider
\* is active, the handler issues a push of the unchanged local document.
C3_NullPullPushes ==
    [][\A d \in Devices, k \in Calls :
          (PullNull(d, k) /\ activeProvider[d])
              => /\ Len(inflight'[d]) = Len(inflight[d])
                 /\ inflight'[d][Len(inflight'[d])].kind = "push"
                 /\ Content(inflight'[d][Len(inflight'[d])].doc) = Content(store[d])]_vars

\* C5: when the push of a push cycle fails, the state becomes 'error', the
\* message is recorded, and the failure neither changes the pending flag nor
\* appends a snapshot nor writes the local store.
C5_PushFailureCaught ==
    [][\A d \in Devices, k \in Calls :
          (PushRejected(d, k) \/ (PushAccepted(d, k) /\ ~activeProvider[d]))
              => /\ currentState'[d] = "error"
                 /\ lastErrorMsg'[d] \in {"Push failed", "TypeError"}
                 /\ pendingChanges'[d] = pendingChanges[d]
                 /\ history'[d] = history[d]
                 /\ store'[d] = store[d]]_vars

\* C5 witness: a push cycle has failed with a change pending: the state is
\* 'error', the message is recorded, the flag is still set, nothing is
\* outstanding and no snapshot exists.
C5_Witness ==
    /\ currentState[1] = "error"
    /\ lastErrorMsg[1] = "Push failed"
    /\ pendingChanges[1]
    /\ inflight[1] = <<>>
    /\ history[1] = <<>>
    /\ store[1] # FreshDoc

\* C6: a response that arrives while no provider is active (after
\* _deactivate, before the next activation) leaves the state, the pending
\* flag, the local document and the version history as they are.
C6_StaleResponseIgnored ==
    [][\A d \in Devices, k \in Calls :
          (Settles(d, k) /\ ~activeProvider[d])
              => /\ currentState'[d] = currentState[d]
                 /\ pendingChanges'[d] = pendingChanges[d]
                 /\ store'[d] = store[d]
                 /\ history'[d] = history[d]]_vars

\* The cycles of device d that completed successfully.
Successes(d) == Cardinality({i \in 1..Len(completed[d]) : completed[d][i] # "null"})

\* C8: after N cycles have completed successfully, starting from version 0,
\* the version of the live local document is at least N.
C8_VersionAtLeastCycles ==
    \A d \in Devices : store[d].meta.version >= Successes(d)

\* C10: an upload answered with an error status appends no snapshot and does
\* not produce state 'synced'.
C10_NoSnapshotOnHttpError ==
    [][\A d \in Devices, k \in Calls :
          (PushHttpError(d, k) \/ MergePushHttpError(d, k))
              => /\ history'[d] = history[d]
                 /\ currentState'[d] # "synced"]_vars

\* One page session in which every provider call succeeds.
LiveNext ==
    \/ \E id \in EditedBy(1) : SetItem(1, id, ~Checked(store[1], id))
    \/ NotifyChange(1)
    \/ DebounceFire(1)
    \/ PeriodicTick(1)
    \/ SyncNow(1)
    \/ LoadPull(1)
    \/ BeforeUnload(1)
    \/ ConnectGoogle(1)
    \/ SignInResolved(1)
    \/ _deactivate(1)
    \/ \E k \in Calls : PushAccepted(1, k)
    \/ \E k \in Calls : PullResolved(1, k)
    \/ \E k \in Calls : PullFindsNothing(1, k)
    \/ \E k \in Calls : MergePushAccepted(1, k)

\* The page's timers fire, the periodic tick keeps firing, and every provider
\* call settles.
LiveSpec ==
    /\ Init
    /\ [][LiveNext]_vars
    /\ WF_vars(LoadPull(1))
    /\ WF_vars(DebounceFire(1))
    /\ WF_vars(PeriodicTick(1))
    /\ WF_vars(\E k \in Calls : PushAccepted(1, k))
    /\ WF_vars(\E k \in Calls : PullResolved(1, k) \/ PullFindsNothing(1, k))
    /\ WF_vars(\E k \in Calls : MergePushAccepted(1, k))

\* The live local document of device d is what the remote object holds.
Uploaded(d) == remote # Null /\ Content(remote) = Content(store[d])

\* C4: a pending flag set while a provider is active leads to state 'synced'
\* with the flag cleared and the current local document uploaded (unless the
\* provider is deactivated, or the clock reaches the last instant explored).
C4_PendingLeadsToSynced ==
    (pendingChanges[1] /\ activeProvider[1])
        ~> \/ currentState[1] = "synced" /\ ~pendingChanges[1] /\ Uploaded(1)
           \/ ~activeProvider[1]
           \/ now = horizon

\* The value of item id in a document, "none" when the document has none.
ItemOf(doc, id) ==
    IF doc # Null /\ id \in DOMAIN doc.profs[Current].data
    THEN IF doc.profs[Current].data[id] THEN "checked" ELSE "unchecked"
    ELSE "none"

\* Device d toggled its item, then completed one push cycle that uploaded the
\* toggle, then one pull-and-merge cycle, and nothing of it is outstanding.
PushedThenMerged(d, id) ==
    /\ Len(completed[d]) = 3
    /\ completed[d][2] = "push"
    /\ completed[d][3] = "merge"
    /\ Len(history[d]) = 3
    /\ ItemOf(history[d][2], id) # "none"
    /\ ItemOf(history[d][2], id) = ItemOf(store[d], id)
    /\ inflight[d] = <<>>
    /\ ~pendingChanges[d]

\* C7: once device 1 has toggled A and device 2 has toggled B, and each has
\* completed its push cycle and a later pull-and-merge cycle, the remote copy
\* and both local documents hold device 1's A and device 2's B.
C7_BothEditsEverywhere ==
    (PushedThenMerged(1, "A") /\ PushedThenMerged(2, "B"))
        => \A doc \in {remote, store[1], store[2]} :
              /\ ItemOf(doc, "A") = ItemOf(store[1], "A")
              /\ ItemOf(doc, "B") = ItemOf(store[2], "B")

\* Device d's first pull returned null, and the last cycle it completed is a
\* pull-and-merge cycle; nothing of it is outstanding.
NullThenMerged(d) ==
    /\ completed[d] # <<>>
    /\ completed[d][1] = "null"
    /\ completed[d][Len(completed[d])] = "merge"
    /\ inflight[d] = <<>>

\* What the page shows of a document: the checklist values and the
\* non-mergeable fields of every profile.
Progress(doc) ==
    [p \in DOMAIN doc.profs |->
        [data |-> doc.profs[p].data, fields |-> doc.profs[p].fields]]

\* C9: when both devices saw pull return null on their first sync and both
\* have since completed a pull-and-merge cycle, their local documents have
\* equal profile content (the same checklist values and fields).
C9_FirstSyncConverges ==
    (NullThenMerged(1) /\ NullThenMerged(2))
        => Progress(store[1]) = Progress(store[2])

\* C11: pull() resolves with null only when no remote object exists: with a
\* remote object present, a pull never settles as null (a failed download is
\* an error, not a first-ever sync).
C11_NullOnlyWithoutRemote ==
    [][\A d \in Devices, k \in Calls : PullNull(d, k) => remote = Null]_vars

\* ------------------------------------------------------------ version history
\* One device whose uploads are all accepted, long enough to fill the history.
InitHistory ==
    /\ \E uploaded \in SUBSET {1} : InitPages({1}, uploaded)
    /\ horizon = HistoryHorizon

HistoryNext ==
    \/ SyncNow(1)
    \/ LoadPull(1)
    \/ \E k \in Calls : PushAccepted(1, k)
    \/ \E k \in Calls : PullResolved(1, k)
    \/ \E k \in Calls : MergePushAccepted(1, k)

HistorySpec == InitHistory /\ [][HistoryNext]_vars

Min(a, b) == IF a < b THEN a ELSE b

\* C12: the stored history has min(number of successful pushes, MAX_HISTORY)
\* entries, and every successful push puts its document at index 0 in front
\* of the entries that were there, dropping the oldest beyond the cap.
C12_HistoryCap ==
    /\ [](\A d \in Devices : Len(history[d]) = Min(Successes(d), MAX_HISTORY))
    /\ [][\A d \in Devices, k \in Calls :
              (PushAccepted(d, k) \/ MergePushAccepted(d, k))
                  => /\ history'[d][1] = inflight[d][k].doc
                     /\ \A i \in 2..Len(history'[d]) : history'[d][i] = history[d][i - 1]]_vars

\* C12 witness: an eleventh successful push has been stored and the history
\* holds ten entries, the newest of them the live local document.
C12_Witness ==
    /\ Successes(1) = MAX_HISTORY + 1
    /\ Len(history[1]) = MAX_HISTORY
    /\ history[1][1] = store[1]

\* ------------------------------------------------------------------ debounce
\* One configured device with a remote document: the only triggers are
\* notifyChange and the timers, and every provider call succeeds.
InitDebounce == InitPages({1}, {1}) /\ horizon = DebounceHorizon

DebounceNext ==
    \/ NotifyChange(1)
    \/ \E id \in EditedBy(1) : SetItem(1, id, ~Checked(store[1], id))
    \/ LoadPull(1)
    \/ DebounceFire(1)
    \/ PeriodicTick(1)
    \/ \E k \in Calls : PushAccepted(1, k)
    \/ \E k \in Calls : PullResolved(1, k)
    \/ \E k \in Calls : MergePushAccepted(1, k)

DebounceSpec == InitDebounce /\ [][DebounceNext]_vars

\* This step of device d starts a push cycle.
StartsPush(d) ==
    /\ Len(inflight'[d]) = Len(inflight[d]) + 1
    /\ inflight'[d][Len(inflight'[d])].kind = "push"

\* C13: the notifyChange calls of a burst start exactly one push cycle, at the
\* expiry of the debounce timer: while the timer is armed no push cycle
\* starts but by its expiry, and its expiry starts one.
C13_BurstStartsOnePush ==
    [][\A d \in Devices :
          /\ (debounceTimer[d] /\ StartsPush(d)) => DebounceFire(d)
          /\ DebounceFire(d) => StartsPush(d)]_vars

\* C14: the coordinator's own writes of the document (the write-back of a
\* push cycle's then-handler, the write of the merge result) do not call
\* notifyChange: they leave the debounce timer as it is, do not set the
\* pending flag and do not move the state to 'pending'.
C14_OwnWritesDoNotNotify ==
    [][\A d \in Devices, k \in Calls :
          /\ ((PushAccepted(d, k) \/ PushHttpError(d, k)) /\ activeProvider[d])
                => /\ debounceTimer'[d] = debounceTimer[d]
                   /\ ~pendingChanges'[d]
                   /\ currentState'[d] = "synced"
          /\ PullResolved(d, k)
                => /\ debounceTimer'[d] = debounceTimer[d]
                   /\ pendingChanges'[d] = pendingChanges[d]
                   /\ (currentState'[d] = "pending" => currentState[d] = "pending")]_vars

\* C14 witness: with the hooks installed, the merge result has just been
\* written to the store and its push is outstanding; no change is pending
\* and no debounce timer is armed.
C14_Witness ==
    /\ hooksReady[1] /\ activeProvider[1]
    /\ \E k \in Calls : IsCall(1, k, "pmpush") /\ inflight[1][k].doc = store[1]
    /\ store[1].meta.lastSyncAt = now
    /\ currentState[1] = "syncing"
    /\ ~pendingChanges[1]
    /\ ~debounceTimer[1]

\* A trigger of device d fires: a local change, notifyChange, syncNow, the
\* debounce timer, the periodic tick, the page-load timer, the page exit.
Trigger(d) ==
    \/ \E id \in Items, checked \in BOOLEAN : SetItem(d, id, checked)
    \/ NotifyChange(d)
    \/ SyncNow(d)
    \/ DebounceFire(d)
    \/ PeriodicTick(d)
    \/ LoadPull(d)
    \/ BeforeUnload(d)

\* C15: while no provider is active, the pending flag is false and neither
\* the debounce nor the periodic timer is armed, and a trigger starts no push
\* or pull and leaves the state, the flag and the timers as they are.
C15_InactiveStaysQuiet ==
    /\ [](\A d \in Devices :
            ~activeProvider[d]
                => ~pendingChanges[d] /\ ~debounceTimer[d] /\ ~periodicTimer[d])
    /\ [][\A d \in Devices :
              (~activeProvider[d] /\ Trigger(d))
                  => /\ inflight'[d] = inflight[d]
                     /\ currentState'[d] = currentState[d]
                     /\ ~pendingChanges'[d]
                     /\ ~debounceTimer'[d]
                     /\ ~periodicTimer'[d]]_vars

\* C15 witness: sync was deactivated on a page that had it active, and the
\* page-load timer and a toggle of A have found no provider: the state is
\* 'inactive', nothing is outstanding, pending or armed.
C15_Witness ==
    /\ hooksReady[1] /\ ~activeProvider[1]
    /\ currentState[1] = "inactive"
    /\ ~loadTimer[1]
    /\ completed[1] = <<>>
    /\ lastErrorMsg[1] = ""
    /\ Checked(store[1], "A")
    /\ inflight[1] = <<>>
    /\ ~pendingChanges[1] /\ ~debounceTimer[1] /\ ~periodicTimer[1]

\* ------------------------------------------------------- mergeProfiles alone
\* The inputs of mergeProfiles.  An item of a profile is absent, or has a
\* value and a timestamp (t = 0: none).
ItemChoices ==
    {c \in [present : BOOLEAN, v : BOOLEAN, t : 0..MaxStamp] :
        ~c.present => (~c.v /\ c.t = 0)}

ItemProfile(ch, hasTs) ==
    [data   |-> [i \in {j \in Items : ch[j].present} |-> ch[i].v],
     ts     |-> [i \in {j \in Items : ch[j].t > 0} |-> ch[i].t],
     hasTs  |-> hasTs,
     fields |-> <<>>,
     syncAt |-> 0]

\* Profiles by their items, without non-mergeable fields.
ItemProfiles ==
    {ItemProfile(ch, h) : ch \in [Items -> ItemChoices],
                          h \in BOOLEAN} \ {p \in {ItemProfile(ch, FALSE) : ch \in [Items -> ItemChoices]} : p.ts # <<>>}

FieldNames  == {"style", "journey"}
FieldValues == {1, 2}
FieldMaps   == UNION {[S -> FieldValues] : S \in SUBSET FieldNames}

\* A profile has all items and no fields, or fields and at most item A
\* without timestamp.
MergeProfileSet ==
    ItemProfiles \cup
    {[p EXCEPT !.fields = f, !.syncAt = a] :
        p \in {q \in ItemProfiles : DOMAIN q.data \subseteq {"A"} /\ q.ts = <<>>},
        f \in FieldMaps, a \in 0..MaxSyncAt}

Other == "P2"

\* The second profile of a document, when it has one.
OtherProfiles ==
    {EmptyProfile,
     [EmptyProfile EXCEPT !.data = [i \in {"A"} |-> TRUE]],
     [EmptyProfile EXCEPT !.fields = [k \in {"style"} |-> 1], !.syncAt = 1]}

MergeDocs ==
    {[profs |-> pr, meta |-> NoMeta] :
        pr \in [{Current} -> MergeProfileSet]
                \cup [{Other} -> OtherProfiles]
                \cup [{Current, Other} -> OtherProfiles]
                \cup {<<>>}}

\* mergeProfiles(store[1], remote) is computed once; the result is kept in
\* store[2] and completed[1] records that it was computed.
InitMerge ==
    /\ \E local \in MergeDocs : store = [d \in Devices |-> IF d = 1 THEN local ELSE FreshDoc]
    /\ remote \in MergeDocs \cup {Null}
    /\ now = 1
    /\ horizon = 1
    /\ history = [d \in Devices |-> <<>>]
    /\ completed = [d \in Devices |-> <<>>]
    /\ activeProvider = [d \in Devices |-> FALSE]
    /\ hooksReady = [d \in Devices |-> FALSE]
    /\ periodicTimer = [d \in Devices |-> FALSE]
    /\ loadTimer = [d \in Devices |-> FALSE]
    /\ pendingChanges = [d \in Devices |-> FALSE]
    /\ debounceTimer = [d \in Devices |-> FALSE]
    /\ currentState = [d \in Devices |-> "inactive"]
    /\ lastErrorMsg = [d \in Devices |-> ""]
    /\ inflight = [d \in Devices |-> <<>>]
    /\ connecting = [d \in Devices |-> FALSE]

MergeApply ==
    /\ completed[1] = <<>>
    /\ store' = [store EXCEPT ![2] = mergeProfiles(store[1], remote)]
    /\ completed' = [completed EXCEPT ![1] = <<"merged">>]
    /\ UNCHANGED <<now, remote, history, activeProvider, pendingChanges,
                   debounceTimer, periodicTimer, hooksReady, currentState,
                   lastErrorMsg, inflight, connecting, loadTimer, horizon>>

MergeNext == MergeApply

MergeSpec == InitMerge /\ [][MergeNext]_vars

\* store[2] holds mergeProfiles(store[1], remote).
Merged == completed[1] = <<"merged">>

\* C16: mergeProfiles(D, D) equals D, and mergeProfiles(D, null) equals D.
C16_MergeIdempotent ==
    (Merged /\ (remote = store[1] \/ remote = Null)) => store[2] = store[1]

\* The two inputs and the result for the profile the page edits, when both
\* inputs have it.
BothHaveCurrent ==
    /\ Merged
    /\ remote # Null
    /\ Current \in DOMAIN store[1].profs \cap DOMAIN remote.profs

\* C17: for a profile present in both documents and an item present in both
\* checklistData, the merged timestamp is the maximum of the two (a missing
\* one counting as 0) and the merged value is the value of the side with that
\* timestamp, the local side on a tie.
C17_ItemMonotone ==
    (Merged /\ remote # Null)
        => \A p \in DOMAIN store[1].profs \cap DOMAIN remote.profs :
              \A i \in DOMAIN store[1].profs[p].data \cap DOMAIN remote.profs[p].data :
                 LET lt == Get0(store[1].profs[p].ts, i)
                     rt == Get0(remote.profs[p].ts, i)
                     m  == store[2].profs[p]
                 IN  /\ Get0(m.ts, i) = Max(lt, rt)
                     /\ m.data[i] = IF rt > lt THEN remote.profs[p].data[i]
                                               ELSE store[1].profs[p].data[i]

\* C17 witness: merged inputs in which A is newer on the remote side and B
\* has the same positive timestamp on both sides, each with different
\* values; the result has the remote A and the local B.
C17_Witness ==
    /\ BothHaveCurrent
    /\ LET lp == store[1].profs[Current]
           rp == remote.profs[Current]
           m  == store[2].profs[Current]
       IN  /\ DOMAIN lp.data = Items /\ DOMAIN rp.data = Items
           /\ Get0(rp.ts, "A") > Get0(lp.ts, "A")
           /\ rp.data["A"] # lp.data["A"] /\ m.data["A"] = rp.data["A"]
           /\ Get0(lp.ts, "B") > 0 /\ Get0(rp.ts, "B") = Get0(lp.ts, "B")
           /\ rp.data["B"] # lp.data["B"] /\ m.data["B"] = lp.data["B"]

\* Profile p derives from the ancestor anc by a change of item id alone: it
\* has the item with a newer timestamp, and the other items as anc has them.
ChangedOnly(anc, p, id) ==
    /\ id \in DOMAIN p.data
    /\ Get0(p.ts, id) > Get0(anc.ts, id)
    /\ \A i \in Items \ {id} :
          /\ (i \in DOMAIN p.data) = (i \in DOMAIN anc.data)
          /\ i \in DOMAIN p.data => p.data[i] = anc.data[i]
          /\ Get0(p.ts, i) = Get0(anc.ts, i)

\* C18: when the local profile derives from a common ancestor by a change of
\* item A alone and the remote profile by a change of item B alone, the
\* merged profile has the local value of A and the remote value of B.
C18_DisjointEditsKept ==
    BothHaveCurrent
        => \A anc \in ItemProfiles :
              (/\ ChangedOnly(anc, store[1].profs[Current], "A")
               /\ ChangedOnly(anc, remote.profs[Current], "B"))
                  => LET m == store[2].profs[Current]
                     IN  /\ DOMAIN m.data = Items
                         /\ m.data["A"] = store[1].profs[Current].data["A"]
                         /\ m.data["B"] = remote.profs[Current].data["B"]

\* C18 witness: merged inputs that derive from an ancestor without B, the
\* local one by checking A and the remote one by adding B; the result has
\* both.
C18_Witness ==
    /\ BothHaveCurrent
    /\ \E anc \in ItemProfiles :
          /\ "B" \notin DOMAIN anc.data
          /\ "A" \in DOMAIN anc.data
          /\ ChangedOnly(anc, store[1].profs[Current], "A")
          /\ ChangedOnly(anc, remote.profs[Current], "B")
          /\ anc.data["A"] # store[1].profs[Current].data["A"]
    /\ DOMAIN store[2].profs[Current].data = Items
    /\ store[2].profs[Current].data["B"] = remote.profs[Current].data["B"]
    /\ store[2].profs[Current].data["A"] = store[1].profs[Current].data["A"]

\* C19: for a profile present in both documents the merged non-mergeable
\* fields are the remote profile's when its syncMeta.lastSyncAt is strictly
\* greater than the local profile's, and the local profile's otherwise.
C19_FieldsAsOneBlock ==
    BothHaveCurrent
        => store[2].profs[Current].fields =
              IF remote.profs[Current].syncAt > store[1].profs[Current].syncAt
              THEN remote.profs[Current].fields
              ELSE store[1].profs[Current].fields

\* C20: with a remote document, a profile only the remote document has is in
\* the merged document as the remote has it, and a profile only the local
\* document has is there as the local has it.
C20_ProfilesAdopted ==
    (Merged /\ remote # Null)
        => /\ \A p \in DOMAIN remote.profs \ DOMAIN store[1].profs :
                 p \in DOMAIN store[2].profs /\ store[2].profs[p] = remote.profs[p]
           /\ \A p \in DOMAIN store[1].profs \ DOMAIN remote.profs :
                 p \in DOMAIN store[2].profs /\ store[2].profs[p] = store[1].profs[p]

\* C20 witness: the local document has only the profile the page edits, the
\* remote one only another; the merged document has both.
C20_Witness ==
    /\ Merged
    /\ remote # Null
    /\ DOMAIN store[1].profs = {Current}
    /\ DOMAIN remote.profs = {Other}
    /\ store[1].profs[Current] # remote.profs[Other]
    /\ DOMAIN store[2].profs = {Current, Other}
    /\ store[2].profs[Other] = remote.profs[Other]

\* ------------------------------------------------- the completion callback
\* The argument onComplete receives when the push of the merge result
\* succeeds: the dataChanged computed by the pull's then-handler, which the
\* call carries.
onCompleteArg(call) == call.changed

\* The call issued last by device d in the next state.
Issued(d) == inflight'[d][Len(inflight'[d])]

\* C21: the value a pull-and-merge cycle computes for its completion callback
\* is true if and only if the cycle changed the content of the local document
\* (anything but the top-level _syncMeta differs from the document read at
\* the start of the handler).
C21_CallbackReportsChange ==
    [][\A d \in Devices, k \in Calls :
          (PullResolved(d, k) /\ activeProvider[d])
              => /\ Issued(d).kind = "pmpush"
                 /\ onCompleteArg(Issued(d)) <=> (Content(store'[d]) # Content(store[d]))]_vars

\* The periodic tick of device d, firing in this state, issues a push: the
\* interval is armed, `if (pendingChanges) doSync()`, and doSync runs.
TickPushes(d) == periodicTimer[d] /\ pendingChanges[d] /\ doSyncRuns(d)

\* C22: when the push of the merge result fails with the provider active, the
\* handler leaves the local store as it is (the merged document stays), the
\* state becomes 'error', and the upload is retried: the periodic tick, firing
\* next, issues a push.
C22_MergePushFailureRetried ==
    [][\A d \in Devices, k \in Calls :
          (MergePushRejected(d, k) /\ activeProvider[d])
              => /\ store'[d] = store[d]
                 /\ currentState'[d] = "error"
                 /\ TickPushes(d)']_vars

\* C23: every item the user has toggled on a device (every checklistData
\* entry of the profile the page edits; the devices start without items) has
\* a checklistTimestamps entry in that profile, whether or not a provider was
\* active when it was toggled.
C23_ToggledItemsStamped ==
    \A d \in Devices :
        \A id \in DOMAIN store[d].profs[Current].data :
            id \in DOMAIN store[d].profs[Current].ts

\* The document device d uploaded last with success: both then-handlers
\* store it as the newest snapshot (where every upload that is answered is
\* accepted).  Null when it has uploaded none.
LastUploaded(d) == IF history[d] = <<>> THEN Null ELSE history[d][1]

\* C24: whenever the state of a device is 'synced', its live local document
\* is the document it uploaded last with success.
C24_SyncedMeansUploaded ==
    \A d \in Devices :
        currentState[d] = "synced" => store[d] = LastUploaded(d)

\* ------------------------------------------------------------------- restore
\* The Restore button of history entry idx (entries after the first have
\* one): the snapshot is written to the store under _internalWrite, then
\* location.reload().  Leaving the page runs the beforeunload listener, whose
\* doSync uploads the stamped snapshot when a change is pending; that upload,
\* like any the page had outstanding, may or may not reach the provider.
\* Then init() runs as on every page load.
Restore(d, idx) ==
    /\ idx \in 2..Len(history[d])
    /\ LET data == history[d][idx]
           unloadPushes == /\ hooksReady[d]
                           /\ pendingChanges[d] \/ internalWriteNotifies(d)
                           /\ doSyncRuns(d)
       IN  /\ store' = [store EXCEPT ![d] = data]
           /\ IF unloadPushes
              THEN \E t \in ClockRead :
                      /\ now' = t
                      /\ \E landed \in {remote} \cup Uploads(inflight[d])
                                         \cup {stampSyncMeta(data, t)} : remote' = landed
              ELSE /\ UNCHANGED now
                   /\ \E landed \in {remote} \cup Uploads(inflight[d]) : remote' = landed
    /\ inflight' = [inflight EXCEPT ![d] = <<>>]
    /\ connecting' = [connecting EXCEPT ![d] = FALSE]
    /\ pendingChanges' = [pendingChanges EXCEPT ![d] = FALSE]
    /\ debounceTimer' = [debounceTimer EXCEPT ![d] = FALSE]
    /\ lastErrorMsg' = [lastErrorMsg EXCEPT ![d] = ""]
    /\ setState(d, "inactive")
    /\ hooksReady' = [hooksReady EXCEPT ![d] = activeProvider[d]]
    /\ periodicTimer' = [periodicTimer EXCEPT ![d] = activeProvider[d]]
    /\ loadTimer' = [loadTimer EXCEPT ![d] = activeProvider[d]]
    /\ UNCHANGED <<history, activeProvider, horizon, completed>>

\* One configured device whose provider calls all succeed: toggles, push
\* cycles, page-load pulls, and restores of older snapshots.
InitRestore == InitPages({1}, {1}) /\ horizon = RestoreHorizon

RestoreNext ==
    \/ \E id \in EditedBy(1) : SetItem(1, id, ~Checked(store[1], id))
    \/ SyncNow(1)
    \/ DebounceFire(1)
    \/ LoadPull(1)
    \/ \E idx \in 2..MAX_HISTORY : Restore(1, idx)
    \/ \E k \in Calls : PushAccepted(1, k)
    \/ \E k \in Calls : PullResolved(1, k)
    \/ \E k \in Calls : MergePushAccepted(1, k)

RestoreSpec == InitRestore /\ [][RestoreNext]_vars

\* The local document of device d is one of its snapshots older than the
\* newest, and the remote object is the newest (the document it pushed last).
RestoredOlder(d) ==
    /\ \E idx \in 2..Len(history[d]) : store[d] = history[d][idx]
    /\ remote = history[d][1]

\* C25: a pull-and-merge cycle that finds an older snapshot restored as the
\* local document, and as the remote object the document this device pushed
\* last, leaves every checklist item of the local document as the snapshot
\* has it.
C25_RestoreSurvivesSync ==
    [][\A d \in Devices, k \in Calls :
          (PullResolved(d, k) /\ RestoredOlder(d))
              => \A id \in Items : ItemOf(store'[d], id) = ItemOf(store[d], id)]_vars

\* --------------------------------------------------- mergeProfiles, twice
\* After mergeProfiles(store[1], remote), its result is merged with the same
\* remote again: mergeProfiles(store[2], remote) is kept as history[2][1],
\* and completed[2] records that it was computed.
MergeAgain ==
    /\ Merged
    /\ remote # Null
    /\ completed[2] = <<>>
    /\ history' = [history EXCEPT ![2] = <<mergeProfiles(store[2], remote)>>]
    /\ completed' = [completed EXCEPT ![2] = <<"merged">>]
    /\ UNCHANGED <<now, remote, store, activeProvider, pendingChanges,
                   debounceTimer, periodicTimer, hooksReady, currentState,
                   lastErrorMsg, inflight, connecting, loadTimer, horizon>>

MergeTwiceNext == MergeApply \/ MergeAgain

MergeTwiceSpec == InitMerge /\ [][MergeTwiceNext]_vars

\* history[2][1] holds mergeProfiles(mergeProfiles(store[1], remote), remote).
MergedTwice == completed[2] = <<"merged">>

\* C26: for a non-null remote R, mergeProfiles(mergeProfiles(L, R), R) equals
\* mergeProfiles(L, R).
C26_SecondMergeChangesNothing ==
    MergedTwice => history[2][1] = store[2]

====
